---- MODULE Spec2Model ----
(***************************************************************************)
(* Model of the error relay of CHTMLParser (HTMLParserBridge.c):           *)
(*   htmlparser_register_error_callback  - writes the registration slot    *)
(*   htmlparser_error_sax_handler        - formats a printf-style message  *)
(*                                         and calls the registered        *)
(*                                         callback                        *)
(*   htmlparser_set_error_handler        - stores the handler's address in *)
(*                                         the error field of a SAX table  *)
(* Strings are sequences of one-character strings.  Every thread has a     *)
(* call stack of frames; host code (the top level of a thread, or the body *)
(* of a callback) may call any of the three entry points.                  *)
(***************************************************************************)
EXTENDS Integers, Sequences, FiniteSets, TLC

\* ------------------------------------------------------------------ bounds
MaxDepth == 2       \* nested handler calls on one thread (re-entrancy)

\* --------------------------------------------------------------- constants
NULL == 0
Callbacks == {1, 2}                 \* two distinct callback addresses c1, c2
Contexts == {7}                     \* a non-null context pointer
Tables == {1, 2}                    \* two htmlSAXHandler structures
MainThread == {1}                   \* the thread that parses
OtherThread == {2}                  \* a second thread, which registers
Threads == MainThread \cup OtherThread
BufIds == 1 .. MaxDepth             \* addresses malloc can hand out
Fields == {"error", "warning"}      \* fields of an htmlSAXHandler
SaxHandlerAddr == "htmlparser_error_sax_handler"
OtherHandlers == {"NULL", "xmlParserError"}
Uninit == <<"?">>                   \* content of a buffer never written to

\* ----------------------------------------------------------- vsnprintf
Digit(d) == CASE d = 0 -> "0" [] d = 1 -> "1" [] d = 2 -> "2" [] d = 3 -> "3"
              [] d = 4 -> "4" [] d = 5 -> "5" [] d = 6 -> "6" [] d = 7 -> "7"
              [] d = 8 -> "8" [] d = 9 -> "9" [] d = 10 -> "A" [] d = 11 -> "B"
              [] d = 12 -> "C" [] d = 13 -> "D" [] d = 14 -> "E" [] d = 15 -> "F"

RECURSIVE NatToBase(_, _)
NatToBase(n, base) ==
    IF n < base THEN <<Digit(n)>>
    ELSE NatToBase(n \div base, base) \o <<Digit(n % base)>>

RECURSIVE Repeat(_, _)
Repeat(c, k) == IF k <= 0 THEN <<>> ELSE <<c>> \o Repeat(c, k - 1)

\* Pads a converted number to the field width, on the left, with zeros after
\* the sign when the 0 flag is given and with blanks otherwise.
PadNumber(sign, digits, zero, width) ==
    LET k == width - (Len(sign) + Len(digits))
    IN  IF zero THEN sign \o Repeat("0", k) \o digits
        ELSE Repeat(" ", k) \o sign \o digits

PadString(s, width) == Repeat(" ", width - Len(s)) \o s

WidthOf(c) == CASE c = "1" -> 1 [] c = "2" -> 2 [] c = "3" -> 3 [] c = "4" -> 4
                [] c = "5" -> 5 [] c = "6" -> 6 [] c = "7" -> 7 [] c = "8" -> 8
                [] c = "9" -> 9 [] OTHER -> 0

\* A conversion specification at the head of rest (the text after a '%'):
\* an optional 0 flag, an optional one-digit width, an optional l, and the
\* conversion character; used is the number of characters it takes.
ParseSpec(rest) ==
    LET zero == Len(rest) >= 1 /\ rest[1] = "0"
        i1 == IF zero THEN 2 ELSE 1
        width == IF Len(rest) >= i1 THEN WidthOf(rest[i1]) ELSE 0
        i2 == IF width > 0 THEN i1 + 1 ELSE i1
        long == Len(rest) >= i2 /\ rest[i2] = "l"
        i3 == IF long THEN i2 + 1 ELSE i2
    IN  [zero |-> zero, width |-> width, long |-> long,
         conv |-> IF Len(rest) >= i3 THEN rest[i3] ELSE "",
         used |-> i3]

\* One converted argument; err for an encoding error (a wide string with a
\* character that has no multibyte form) and for a specification the model
\* does not cover.
Convert(sp, arg) ==
    CASE sp.conv = "d" ->
           [err |-> FALSE,
            out |-> PadNumber(IF arg.n < 0 THEN <<"-">> ELSE <<>>,
                              NatToBase(IF arg.n < 0 THEN -arg.n ELSE arg.n, 10),
                              sp.zero, sp.width)]
      [] sp.conv = "X" ->
           [err |-> arg.n < 0,
            out |-> PadNumber(<<>>, NatToBase(IF arg.n < 0 THEN 0 ELSE arg.n, 16),
                              sp.zero, sp.width)]
      [] sp.conv = "s" /\ ~sp.long ->
           [err |-> FALSE, out |-> PadString(arg.s, sp.width)]
      [] sp.conv = "s" /\ sp.long ->
           [err |-> \E i \in 1 .. Len(arg.s) : arg.s[i] = "<invalid>",
            out |-> PadString(arg.s, sp.width)]
      [] OTHER -> [err |-> TRUE, out |-> <<>>]

\* The full expansion of a template with its arguments.
RECURSIVE Expand(_, _)
Expand(fmt, args) ==
    IF fmt = <<>> THEN [err |-> FALSE, out |-> <<>>]
    ELSE IF Head(fmt) # "%" THEN
        LET r == Expand(Tail(fmt), args)
        IN  [err |-> r.err, out |-> <<Head(fmt)>> \o r.out]
    ELSE
        LET rest == Tail(fmt)
            sp == ParseSpec(rest)
        IN  IF sp.conv = "%" THEN
                LET r == Expand(SubSeq(rest, sp.used + 1, Len(rest)), args)
                IN  [err |-> r.err, out |-> <<"%">> \o r.out]
            ELSE IF sp.conv = "" \/ args = <<>> THEN [err |-> TRUE, out |-> <<>>]
            ELSE
                LET c == Convert(sp, Head(args))
                    r == Expand(SubSeq(rest, sp.used + 1, Len(rest)), Tail(args))
                IN  [err |-> c.err \/ r.err, out |-> c.out \o r.out]

Min(a, b) == IF a < b THEN a ELSE b

\* vsnprintf(buf, n, fmt, args): ret is the length of the full expansion, or
\* negative on an error; out is what is stored (without the terminator): at
\* most n - 1 characters, and nothing when n = 0.
vsnprintf(old, n, fmt, args) ==
    LET e == Expand(fmt, args)
    IN  IF e.err THEN [ret |-> -1, out |-> old]
        ELSE [ret |-> Len(e.out),
              out |-> IF n <= 0 THEN old ELSE SubSeq(e.out, 1, Min(Len(e.out), n - 1))]

\* ------------------------------------------------------------------ inputs
StrArg(s) == [k |-> "s", s |-> s, n |-> 0]
IntArg(n) == [k |-> "d", s |-> <<>>, n |-> n]

\* Templates with matching arguments: one expanding to the empty string, one
\* using every conversion, and one whose wide string cannot be converted.
Inputs ==
    { [msg |-> <<>>, args |-> <<>>],
      [msg |-> <<"%", "s", " ", "%", "d", " ", "x", "%", "0", "2", "X">>,
       args |-> <<StrArg(<<"d", "i", "v">>), IntArg(42), IntArg(254)>>],
      [msg |-> <<"%", "l", "s">>, args |-> <<StrArg(<<"a", "<invalid>">>)>>] }

\* ------------------------------------------------------------------- state
VARIABLES
    error_callback,   \* the static registration slot _error_callback
    tables,           \* the htmlSAXHandler structures: table -> field -> handler
    stack,            \* per thread, its call stack of frames (top last)
    heap,             \* malloc's buffers: address -> [live, size, data]
    fault,            \* "none", or how the process crashed
    regs,             \* history: the arguments of the last two registrations
    absorbed,         \* history: a handler call has failed silently
    lastOp            \* history: the step just taken, with its parameters

vars == <<error_callback, tables, stack, heap, fault, regs, absorbed, lastOp>>

NoBuf == [live |-> FALSE, size |-> 0, data |-> <<>>]

\* A frame of htmlparser_error_sax_handler (fn = "handler") or of a callback
\* (fn = "callback"); both have the same fields.  A handler frame keeps in
\* cb the slot's value read at line 40 and counts its callback invocations;
\* a callback frame has its two parameters in ctx and formattedMsg.
HandlerFrame(ctx, in, seen) ==
    [fn |-> "handler", pc |-> "length", ctx |-> ctx, cb |-> seen,
     msg |-> in.msg, args |-> in.args, length |-> 0, formattedMsg |-> NULL,
     invoked |-> 0]

CallbackFrame(cb, ctx, buf) ==
    [fn |-> "callback", pc |-> "body", ctx |-> ctx, cb |-> cb,
     msg |-> <<>>, args |-> <<>>, length |-> 0, formattedMsg |-> buf,
     invoked |-> 0]

Top(t) == stack[t][Len(stack[t])]
Pop(t) == SubSeq(stack[t], 1, Len(stack[t]) - 1)
SetTop(t, f) == [stack EXCEPT ![t] = Append(Pop(t), f)]
Push(t, f) == [stack EXCEPT ![t] = Append(stack[t], f)]
Depth(t) == Cardinality({i \in 1 .. Len(stack[t]) : stack[t][i].fn = "handler"})

\* Host code runs on t: the thread is at its top level or in a callback's body.
AtCaller(t) == IF stack[t] = <<>> THEN TRUE ELSE Top(t).fn = "callback"
InCallback(t) == IF stack[t] = <<>> THEN FALSE ELSE Top(t).fn = "callback"
AtPc(t, pc) ==
    IF stack[t] = <<>> THEN FALSE ELSE Top(t).fn = "handler" /\ Top(t).pc = pc

\* The record of a step: the entry point's parameters and, for a return of
\* the handler, how it ended (st) and how often it invoked a callback.
Op(op, via, ctx, msg, args, cb, st, invoked) ==
    [op |-> op, via |-> via, ctx |-> ctx, msg |-> msg, args |-> args,
     cb |-> cb, st |-> st, invoked |-> invoked]

\* A call of htmlparser_set_error_handler: st keeps what the table's error
\* field held before the call.
InstallOp(tabs, sax_handler) ==
    Op("install", sax_handler, NULL, <<>>, <<>>, NULL,
       IF sax_handler = NULL THEN "" ELSE tabs[sax_handler]["error"], 0)

Internal(op, f) == Op(op, NULL, f.ctx, f.msg, f.args, f.cb, "", f.invoked)
Return(st, f) == Op("return", NULL, f.ctx, f.msg, f.args, f.cb, st, f.invoked)

Init ==
    /\ error_callback = NULL
    /\ tables \in [Tables -> {[error |-> e, warning |-> "xmlParserError"] :
                                e \in OtherHandlers}]
    /\ stack = [t \in Threads |-> <<>>]
    /\ heap = [b \in BufIds |-> NoBuf]
    /\ fault = "none"
    /\ regs = <<NULL, NULL>>
    /\ absorbed = FALSE
    /\ lastOp = Op("init", NULL, NULL, <<>>, <<>>, NULL, "", 0)

\* ---------------------------------- htmlparser_register_error_callback
\* Faulty variants of the store of line 18: the first registration is kept;
\* a second registration clears the slot.
RegisterKeepsFirst(old, callback) == IF old # NULL THEN old ELSE callback
RegisterToggles(old, callback) == IF old # NULL THEN NULL ELSE callback

RegisterResult(old, callback) == callback

htmlparser_register_error_callback(t, callback) ==
    /\ fault = "none"
    /\ AtCaller(t)
    /\ error_callback' = RegisterResult(error_callback, callback)
    /\ regs' = <<regs[2], callback>>
    /\ lastOp' = Op("register", NULL, NULL, <<>>, <<>>, callback, "", 0)
    /\ UNCHANGED <<tables, stack, heap, fault, absorbed>>

\* ------------------------------------------ htmlparser_set_error_handler
\* Faulty variants of the store of line 76: a handler already set is kept;
\* the warning field is set as well.
SetErrorFieldIfUnset(tabs, sax_handler) ==
    IF sax_handler # NULL /\ tabs[sax_handler]["error"] = "NULL"
    THEN [tabs EXCEPT ![sax_handler]["error"] = SaxHandlerAddr]
    ELSE tabs

SetErrorAndWarning(tabs, sax_handler) ==
    IF sax_handler # NULL
    THEN [tabs EXCEPT ![sax_handler] = [f \in Fields |-> SaxHandlerAddr]]
    ELSE tabs

SetErrorField(tabs, sax_handler) ==
    IF sax_handler # NULL
    THEN [tabs EXCEPT ![sax_handler]["error"] = SaxHandlerAddr]
    ELSE tabs

htmlparser_set_error_handler(t, sax_handler) ==
    /\ fault = "none"
    /\ AtCaller(t)
    /\ tables' = SetErrorField(tables, sax_handler)
    /\ lastOp' = InstallOp(tables, sax_handler)
    /\ UNCHANGED <<error_callback, stack, heap, fault, regs, absorbed>>

\* ---------------------------------------------- htmlparser_error_sax_handler
\* Faulty variants of the test of line 40: the context is not tested; the
\* slot is not tested.
ReturnsEarlyNoCtx(ctx, callback) == callback = NULL
ReturnsEarlyNoSlot(ctx, callback) == ctx = NULL

\* Faulty variant of the test of line 49: a failed length pass goes unnoticed.
LengthNeverFailed(length) == FALSE

\* Faulty variant of line 57: the limit leaves no room for the last character.
FormatLimitShort(length) == length

\* Faulty variant of line 64: the buffer is not given back.
FreeNothing(h, p) == h

\* Line 40: the early return.
ReturnsEarly(ctx, callback) == ctx = NULL \/ callback = NULL

\* Line 49: the length pass failed.
LengthFailed(length) == length < 0

\* Line 52: the size asked of malloc;  line 57: the limit given to vsnprintf.
\* length is an int; the messages of Inputs are far shorter than INT_MAX, so
\* length + 1 does not overflow here.
AllocSize(length) == length + 1
FormatLimit(length) == length + 1

\* Line 61: the arguments the callback is called with.
CallbackArgs(f) == [ctx |-> f.ctx, msg |-> f.formattedMsg]

\* malloc hands out the lowest address not in use.
FreeAddr == CHOOSE b \in BufIds : ~heap[b].live /\ \A c \in BufIds : c < b => heap[c].live

\* Line 64: free(p) gives the buffer back.
FreeResult(h, p) == [h EXCEPT ![p] = NoBuf]

\* The handler is entered, directly (via = NULL) or by the engine through the
\* error field of table via, and runs line 40.
SaxHandlerEnter(t, via, ctx, in) ==
    /\ fault = "none"
    /\ AtCaller(t)
    /\ Depth(t) < MaxDepth
    /\ IF via = NULL THEN TRUE ELSE tables[via]["error"] = SaxHandlerAddr
    /\ IF ReturnsEarly(ctx, error_callback)
       THEN /\ stack' = stack
            /\ lastOp' = Op("return", via, ctx, in.msg, in.args, error_callback, "noop", 0)
       ELSE /\ stack' = Push(t, HandlerFrame(ctx, in, error_callback))
            /\ lastOp' = Op("enter", via, ctx, in.msg, in.args, error_callback, "", 0)
    /\ UNCHANGED <<error_callback, tables, heap, fault, regs, absorbed>>

\* Lines 42-49: the length pass.
SaxHandlerLength(t) ==
    /\ fault = "none"
    /\ AtPc(t, "length")
    /\ LET f == Top(t)
           length == vsnprintf(<<>>, 0, f.msg, f.args).ret
       IN  IF LengthFailed(length)
           THEN /\ stack' = [stack EXCEPT ![t] = Pop(t)]
                /\ absorbed' = TRUE
                /\ lastOp' = Return("neglen", f)
           ELSE /\ stack' = SetTop(t, [f EXCEPT !.length = length, !.pc = "malloc"])
                /\ absorbed' = absorbed
                /\ lastOp' = Internal("length", f)
    /\ UNCHANGED <<error_callback, tables, heap, fault, regs>>

\* Lines 52-53: malloc, which may fail.
SaxHandlerMalloc(t) ==
    /\ fault = "none"
    /\ AtPc(t, "malloc")
    /\ LET f == Top(t)
       IN  \/ /\ \E b \in BufIds : ~heap[b].live
              /\ heap' = [heap EXCEPT ![FreeAddr] =
                            [live |-> TRUE, size |-> AllocSize(f.length), data |-> Uninit]]
              /\ stack' = SetTop(t, [f EXCEPT !.formattedMsg = FreeAddr, !.pc = "format"])
              /\ absorbed' = absorbed
              /\ lastOp' = Internal("malloc", f)
           \/ /\ heap' = heap
              /\ stack' = [stack EXCEPT ![t] = Pop(t)]
              /\ absorbed' = TRUE
              /\ lastOp' = Return("nomem", f)
    /\ UNCHANGED <<error_callback, tables, fault, regs>>

\* Lines 56-58: the formatting pass into the buffer.
SaxHandlerFormat(t) ==
    /\ fault = "none"
    /\ AtPc(t, "format")
    /\ LET f == Top(t)
           b == f.formattedMsg
           r == vsnprintf(heap[b].data, FormatLimit(f.length), f.msg, f.args)
       IN  /\ heap' = [heap EXCEPT ![b].data = r.out]
           /\ stack' = SetTop(t, [f EXCEPT !.pc = "call"])
           /\ lastOp' = Internal("format", f)
    /\ UNCHANGED <<error_callback, tables, fault, regs, absorbed>>

\* Line 61: the slot is read again and called.  The read races with a store
\* of another thread; it yields the slot's value now, or the value line 40
\* read where the build kept it in a register.
SaxHandlerCall(t) ==
    /\ fault = "none"
    /\ AtPc(t, "call")
    /\ LET f == Top(t)
           a == CallbackArgs(f)
           g == [f EXCEPT !.pc = "free", !.invoked = f.invoked + 1]
       IN  \E cb \in {error_callback, f.cb} :
              IF cb = NULL
              THEN /\ fault' = "null call"
                   /\ stack' = stack
                   /\ lastOp' = Op("crash", NULL, f.ctx, f.msg, f.args, cb, "", f.invoked)
              ELSE /\ fault' = fault
                   /\ stack' = [stack EXCEPT ![t] =
                                  Append(Append(Pop(t), g), CallbackFrame(cb, a.ctx, a.msg))]
                   /\ lastOp' = Op("call", NULL, f.ctx, f.msg, f.args, cb, "", g.invoked)
    /\ UNCHANGED <<error_callback, tables, heap, regs, absorbed>>

\* The callback returns to line 61.
CallbackReturn(t) ==
    /\ fault = "none"
    /\ InCallback(t)
    /\ stack' = [stack EXCEPT ![t] = Pop(t)]
    /\ lastOp' = Internal("cbreturn", Top(t))
    /\ UNCHANGED <<error_callback, tables, heap, fault, regs, absorbed>>

\* Lines 64-65: free and return; freeing what is not live is a fault.
SaxHandlerFree(t) ==
    /\ fault = "none"
    /\ AtPc(t, "free")
    /\ LET f == Top(t)
       IN  IF heap[f.formattedMsg].live
           THEN /\ heap' = FreeResult(heap, f.formattedMsg)
                /\ fault' = fault
                /\ stack' = [stack EXCEPT ![t] = Pop(t)]
                /\ lastOp' = Return("relayed", f)
           ELSE /\ fault' = "bad free"
                /\ lastOp' = Internal("crash", f)
                /\ UNCHANGED <<heap, stack>>
    /\ UNCHANGED <<error_callback, tables, regs, absorbed>>

\* ------------------------------------------------------- specifications
\* The program the specification assumes: one thread.
Next ==
    \E t \in MainThread :
        \/ \E c \in Callbacks \cup {NULL} : htmlparser_register_error_callback(t, c)
        \/ \E T \in Tables \cup {NULL} : htmlparser_set_error_handler(t, T)
        \/ \E via \in Tables \cup {NULL}, ctx \in Contexts \cup {NULL}, in \in Inputs :
              SaxHandlerEnter(t, via, ctx, in)
        \/ SaxHandlerLength(t)
        \/ SaxHandlerMalloc(t)
        \/ SaxHandlerFormat(t)
        \/ SaxHandlerCall(t)
        \/ CallbackReturn(t)
        \/ SaxHandlerFree(t)

Spec == Init /\ [][Next]_vars

\* The same program while a second thread registers, unsynchronized.
NextRace ==
    \/ Next
    \/ \E t \in OtherThread, c \in Callbacks \cup {NULL} :
          htmlparser_register_error_callback(t, c)

SpecRace == Init /\ [][NextRace]_vars

\* ------------------------------------------------------------------ claims
FramesOf(t) == {<<t, i>> : i \in 1 .. Len(stack[t])}
Frames == UNION {FramesOf(t) : t \in Threads}
IsHandler(t, i) == stack[t][i].fn = "handler"
IsCallback(t, i) == stack[t][i].fn = "callback"
Live == {b \in BufIds : heap[b].live}
HoldsBuffer(t, i) == IsHandler(t, i) /\ stack[t][i].pc \in {"format", "call", "free"}
OwnedBy(t) == {stack[t][i].formattedMsg :
                  i \in {j \in 1 .. Len(stack[t]) : HoldsBuffer(t, j)}}
Owned == UNION {OwnedBy(t) : t \in Threads}
NOwners == Cardinality({<<t, i>> \in Threads \X (1 .. 2 * MaxDepth) :
                            i <= Len(stack[t]) /\ HoldsBuffer(t, i)})
InFlight == \E t \in Threads : stack[t] # <<>>
Returned(sts) == lastOp.op = "return" /\ lastOp.st \in sts
Returning(sts) == lastOp'.op = "return" /\ lastOp'.st \in sts
FullText == <<"d", "i", "v", " ", "4", "2", " ", "x", "F", "E">>

\* C1: a handler call with a non-null context, a registered callback, a
\* successful length pass and a successful allocation invokes the callback
\* exactly once before it returns, with its own context and with the whole
\* expansion of the template, the empty expansion included.
C1_DeliveredAt(t, i) ==
    IsCallback(t, i) =>
        /\ i > 1
        /\ IsHandler(t, i - 1)
        /\ stack[t][i - 1].pc = "free"
        /\ stack[t][i - 1].invoked = 1
        /\ stack[t][i].cb # NULL
        /\ stack[t][i].ctx = stack[t][i - 1].ctx
        /\ heap[stack[t][i].formattedMsg].live
        /\ ~Expand(stack[t][i - 1].msg, stack[t][i - 1].args).err
        /\ heap[stack[t][i].formattedMsg].data
             = Expand(stack[t][i - 1].msg, stack[t][i - 1].args).out

C1_NotYetAt(t, i) ==
    (IsHandler(t, i) /\ stack[t][i].pc # "free") => stack[t][i].invoked = 0

C1_ExactlyOnceFullMessage ==
    /\ \A p \in Frames : C1_DeliveredAt(p[1], p[2])
    /\ \A p \in Frames : C1_NotYetAt(p[1], p[2])
    /\ (/\ lastOp.op = "return"
        /\ lastOp.ctx # NULL
        /\ lastOp.cb # NULL
        /\ ~Expand(lastOp.msg, lastOp.args).err
        /\ lastOp.st # "nomem")
         => (lastOp.st = "relayed" /\ lastOp.invoked = 1)

\* Witness of C1: a callback is running with the full text "div 42 xFE" and,
\* called from it, a second one is running with the empty message.
C1_Witness ==
    \E t \in Threads :
        /\ Len(stack[t]) = 4
        /\ IsCallback(t, 2) /\ IsCallback(t, 4)
        /\ heap[stack[t][2].formattedMsg].data = FullText
        /\ heap[stack[t][4].formattedMsg].data = <<>>
        /\ heap[stack[t][4].formattedMsg].size = 1

\* C2: the slot holds the argument of the most recent registration, and a
\* callback that is invoked is that argument, wherever the installations of
\* the handler fall among the registrations.
C2_LastWriterWins ==
    /\ error_callback = regs[2]
    /\ lastOp.op = "call" =>
          /\ lastOp.cb = regs[2]
          /\ \E t \in Threads : InCallback(t) /\ Top(t).cb = regs[2]

\* Witness of C2: c1 then c2 were registered, and a call that came through
\* an installed table has invoked c2.
C2_Witness ==
    /\ regs = <<1, 2>>
    /\ lastOp.op = "call"
    /\ lastOp.cb = 2
    /\ \E T \in Tables : tables[T]["error"] = SaxHandlerAddr

\* C3: a handler call with a null context returns at once: it invokes no
\* callback, formats nothing and allocates nothing, whatever the slot holds.
C3_NoNullCtxFrame(t, i) == stack[t][i].ctx # NULL

C3_NullContextIsNoOp ==
    /\ [](\A p \in Frames : C3_NoNullCtxFrame(p[1], p[2]))
    /\ []((lastOp.op \in {"enter", "return", "call", "length", "malloc", "format"}
            /\ lastOp.ctx = NULL)
           => (Returned({"noop"}) /\ lastOp.invoked = 0))
    /\ [][(lastOp'.ctx = NULL /\ Returning({"noop"}))
            => UNCHANGED <<error_callback, tables, stack, heap, fault>>]_vars

\* Witness of C3: a null-context call has returned while a callback is
\* registered.
C3_Witness ==
    /\ Returned({"noop"})
    /\ lastOp.ctx = NULL
    /\ error_callback # NULL
    /\ lastOp.msg # <<>>

\* C4: the slot starts unset; a registration makes it what was passed, no
\* other step changes it; while it is unset every handler call, also one
\* made through an installed table, returns at once without invoking
\* anything and without a fault; while it is set every handler call with a
\* non-null context goes on to the relay.
C4_TwoStateMachine ==
    /\ error_callback = NULL
    /\ [](fault = "none")
    /\ [][/\ (lastOp'.op = "register") => (error_callback' = lastOp'.cb)
          /\ (lastOp'.op # "register") => (error_callback' = error_callback)
          /\ (error_callback = NULL) => (lastOp'.op \notin {"enter", "call"})
          /\ (error_callback = NULL /\ Returning({"noop"}))
               => UNCHANGED <<error_callback, tables, stack, heap, fault>>
          /\ (error_callback # NULL /\ Returning({"noop"})) => (lastOp'.ctx = NULL)
         ]_vars

\* Witness of C4: after c1 and then null were registered, a call through an
\* installed table with a non-null context has returned at once.
C4_Witness ==
    /\ regs = <<1, NULL>>
    /\ error_callback = NULL
    /\ Returned({"noop"})
    /\ lastOp.via # NULL
    /\ lastOp.ctx # NULL

\* C5 as stated: once the slot holds a callback, no step returns it to unset.
C5_NeverUnset == [][(error_callback # NULL) => (error_callback' # NULL)]_vars

\* C5 as amended: the slot starts unset; only registrations write it; a
\* registration of a callback leaves it set; once it is set, the only step
\* that returns it to unset is a registration of the null reference.
C5_UnsetOnlyByNullRegistration ==
    /\ error_callback = NULL
    /\ [][/\ (error_callback' # error_callback) => (lastOp'.op = "register")
          /\ (lastOp'.op = "register" /\ lastOp'.cb # NULL) => (error_callback' # NULL)
          /\ (error_callback # NULL /\ error_callback' = NULL)
               => (lastOp'.op = "register" /\ lastOp'.cb = NULL)
         ]_vars

\* Witness of C5: the slot held c1 and a registration of null has unset it.
C5_Witness ==
    /\ lastOp.op = "register"
    /\ lastOp.cb = NULL
    /\ regs[1] # NULL
    /\ error_callback = NULL

\* C6: installing into a table whose error field already holds the handler
\* changes nothing, and after any installation the field holds the handler,
\* whatever it held before.
C6_InstallIdempotent ==
    /\ [](\A T \in Tables :
             /\ SetErrorField(tables, T)[T]["error"] = SaxHandlerAddr
             /\ SetErrorField(SetErrorField(tables, T), T) = SetErrorField(tables, T))
    /\ [][(lastOp'.op = "install" /\ lastOp'.via # NULL)
            => /\ tables'[lastOp'.via]["error"] = SaxHandlerAddr
               /\ (tables[lastOp'.via]["error"] = SaxHandlerAddr)
                    => UNCHANGED <<error_callback, tables, stack, heap, fault>>
         ]_vars

\* Witness of C6: the handler was installed into a table that held it.
C6_Witness ==
    /\ lastOp.op = "install"
    /\ lastOp.via # NULL
    /\ lastOp.st = SaxHandlerAddr
    /\ tables[lastOp.via]["error"] = SaxHandlerAddr

\* C7: an installation changes at most the error field of its table; with a
\* null table it changes nothing; no other step changes a table.
C7_InstallFrame ==
    [][/\ (lastOp'.op = "install")
            => /\ UNCHANGED <<error_callback, stack, heap, fault>>
               /\ \A T \in Tables, f \in Fields :
                     (T # lastOp'.via \/ f # "error") => tables'[T][f] = tables[T][f]
       /\ (lastOp'.op = "install" /\ lastOp'.via = NULL) => (tables' = tables)
       /\ (lastOp'.op # "install") => (tables' = tables)
      ]_vars

\* Witness of C7: an installation has replaced another handler in table 1
\* while table 2 holds none.
C7_Witness ==
    /\ lastOp.op = "install"
    /\ lastOp.via = 1
    /\ lastOp.st = "xmlParserError"
    /\ tables[1]["error"] = SaxHandlerAddr
    /\ tables[2]["error"] = "NULL"

\* C8: a handler call whose length pass fails or whose allocation fails
\* returns without invoking a callback, without a fault, with the slot as it
\* was and the heap as it was; calls after it relay as usual.
C8_PastLengthAt(t, i) ==
    (IsHandler(t, i) /\ stack[t][i].pc # "length")
        => ~Expand(stack[t][i].msg, stack[t][i].args).err

C8_FailSilent ==
    /\ [](fault = "none")
    /\ [](\A p \in Frames : C8_PastLengthAt(p[1], p[2]))
    /\ [](Returned({"neglen", "nomem"})
            => (lastOp.invoked = 0 /\ error_callback = lastOp.cb /\ Live = Owned))
    /\ []((lastOp.op = "return" /\ lastOp.ctx # NULL /\ lastOp.cb # NULL
             /\ Expand(lastOp.msg, lastOp.args).err) => Returned({"neglen"}))
    /\ []((absorbed /\ Returned({"relayed"})) => lastOp.invoked = 1)
    /\ [][Returning({"neglen", "nomem"})
            => UNCHANGED <<error_callback, tables, heap, fault>>]_vars

\* Witness of C8: after a call has failed silently, a later call invokes the
\* callback.
C8_Witness ==
    /\ absorbed
    /\ lastOp.op = "call"
    /\ \E t \in Threads : Len(stack[t]) = 2

\* C9: the live buffers are exactly the buffers of the handler calls that are
\* past their allocation, one each; the buffer a callback was given is live
\* while the callback runs; no buffer is freed twice; so no buffer is live
\* when no handler call is in flight.
C9_BufferAt(t, i) ==
    /\ (IsHandler(t, i) /\ ~HoldsBuffer(t, i)) => stack[t][i].formattedMsg = NULL
    /\ IsCallback(t, i) =>
          /\ i > 1
          /\ stack[t][i].formattedMsg = stack[t][i - 1].formattedMsg
          /\ heap[stack[t][i].formattedMsg].live

C9_BufferOwnership ==
    /\ \A p \in Frames : C9_BufferAt(p[1], p[2])
    /\ Live = Owned
    /\ Cardinality(Live) = NOwners
    /\ fault # "bad free"
    /\ ~InFlight => Live = {}

\* Witness of C9: a relayed call has returned to the top level, its callback
\* having registered another callback, and no buffer is live.
C9_Witness ==
    /\ Returned({"relayed"})
    /\ ~InFlight
    /\ lastOp.cb # error_callback
    /\ Live = {}

\* C10: while another thread registers, the handler never calls a null
\* reference: what it calls is the non-null reference its test of line 40
\* read.
C10_CallsWhatItChecked(t, i) ==
    IsCallback(t, i) => (i > 1 /\ stack[t][i].cb = stack[t][i - 1].cb)

C10_NeverCallsNull ==
    /\ fault # "null call"
    /\ \A p \in Frames : C10_CallsWhatItChecked(p[1], p[2])

====
